---- MODULE Spec2Model ----
(***************************************************************************)
(* The gRPC ServerConn adapter (transport/grpc/grpc_server.go) and the     *)
(* hysteria2 client handshake (protocol/hysteria2/client/client.go) as     *)
(* state machines.                                                         *)
(*                                                                         *)
(* ServerConn: one goroutine calls Read, one calls Write, one calls the    *)
(* deadline setters and Close; every Read/Write that reaches the transport *)
(* starts one background goroutine; every time.AfterFunc timer that        *)
(* expires starts one callback goroutine.  A goroutine's step between two  *)
(* blocking points (lock, channel, transport call) is one action.          *)
(***************************************************************************)
EXTENDS Integers, Sequences, FiniteSets, TLC

\* ---------------------------------------------------------------- bounds
MaxMsg == 1       \* longest hunk the transport hands to Recv
MaxBuf == 1       \* longest caller buffer given to Read / Write
MaxTasks == 2     \* background goroutines alive at once, per direction
MaxTimers == 2    \* timer objects alive at once, per direction
MaxRate == 2      \* bandwidth values 0..MaxRate besides the spec's examples

MsgLens == 0..MaxMsg
BufLens == 1..MaxBuf
BigMsgLens == 0..(MaxMsg + 2)
BigBufLens == 0..(MaxBuf + 1)
TaskIds == 1..MaxTasks
TimerIds == 1..MaxTimers
\* A scope (context) is referenced by the ServerConn field and by at most one
\* blocked Read (Write): two names are enough, unreferenced scopes are garbage.
ScopeIds == {1, 2}

\* ---------------------------------------------------------------- errors
Nil == "nil"
ErrDeadlineExceeded == "os.ErrDeadlineExceeded"
EOF == "io.EOF"
\* errors the transport's Recv / Send can return: three gRPC statuses and an
\* error that carries no status
TunErrs == {"status.Unavailable", "status.OutOfRange", "status.Internal", "errors.New"}

\* status.Code(err)
Code(err) ==
  CASE err = Nil -> "OK"
    [] err = "status.Unavailable" -> "Unavailable"
    [] err = "status.OutOfRange" -> "OutOfRange"
    [] err = "status.Internal" -> "Internal"
    [] OTHER -> "Unknown"

Translate_OnlyUnavailable(err) ==
  IF Code(err) = "Unavailable" THEN EOF ELSE err

\* if code == codes.Unavailable || code == codes.OutOfRange { err = io.EOF }
Translate(err) ==
  IF Code(err) = "Unavailable" \/ Code(err) = "OutOfRange" THEN EOF ELSE err

Min(a, b) == IF a < b THEN a ELSE b
MinOf(S) == CHOOSE x \in S : \A y \in S : x <= y

\* the payload of a hunk of length L: byte i carries the value i
Bytes(L) == [i \in 1..L |-> i]

VARIABLES
  \* ServerConn fields
  buf, offset,                 \* leftover buffer [nil, data] and read offset
  muReading, muWriting,        \* locks: TRUE when held
  muRecv, muSend,
  readDeadline, writeDeadline, \* timer the field points at, 0 for nil
  ctxRead, ctxWrite,           \* scope the field points at
  ctx,                         \* connection-wide scope: "live" or "done"
  \* objects on the heap
  readScopes, writeScopes,     \* scope id -> "free" | "live" | "done"
  readTimers, writeTimers,     \* timer id -> "free" | "armed" | "fired" | "dead"
  recvTasks, sendTasks,        \* task id -> "none" | "lock" | "call"
  readDone, sendDone,          \* completion channel of task id (capacity 1)
  \* the calling goroutines
  reader, writer,              \* [pc, p, ctx, ch]
  ret,                         \* the call that returned in the step just taken and
                               \* what it returned; NoRet when no call returned
  \* history
  readFresh, writeFresh,       \* "tripped" after a deadline call in the past,
                               \* "refreshed" after a future one that follows it
  rdHist,                      \* delivery of the hunk last taken by a Read
  \* hysteria2 client
  hs,                          \* clientImpl and what NewClient returned
  tcp,                         \* one stream opened by TCP and its tcpConn
  udp,                         \* the datagrams of the connection and ReceiveMessage
  \* the operations the callers, the clock and the transport use in this behaviour
  uses

connVars == <<buf, offset, muReading, muWriting, muRecv, muSend, readDeadline,
              writeDeadline, ctxRead, ctxWrite, ctx, readScopes, writeScopes,
              readTimers, writeTimers, recvTasks, sendTasks, readDone, sendDone,
              reader, writer, ret, readFresh, writeFresh, rdHist>>
readSide == <<buf, offset, muReading, muRecv, recvTasks, readDone, reader, rdHist>>
writeSide == <<muWriting, muSend, sendTasks, sendDone, writer>>
readDl == <<readDeadline, ctxRead, readScopes, readTimers, readFresh>>
writeDl == <<writeDeadline, ctxWrite, writeScopes, writeTimers, writeFresh>>
cliVars == <<hs, tcp, udp>>
vars == <<connVars, cliVars, uses>>

Returns(op, n, err, data) == [op |-> op, n |-> n, err |-> err, data |-> data]
Failed(op, err) == Returns(op, 0, err, <<>>)
NilBuf == [nil |-> TRUE, data |-> <<>>]
Idle == [pc |-> "idle", p |-> 0, ctx |-> 0, ch |-> 0]
NoRet == [op |-> "none", n |-> 0, err |-> Nil, data |-> <<>>]
NoHist == [msg |-> <<>>, got |-> <<>>, reads |-> 0, b |-> 0, clean |-> FALSE]

\* NewServerConn
InitConn ==
  /\ buf = NilBuf /\ offset = 0
  /\ muReading = FALSE /\ muWriting = FALSE /\ muRecv = FALSE /\ muSend = FALSE
  /\ readDeadline = 0 /\ writeDeadline = 0
  /\ ctxRead = 1 /\ ctxWrite = 1 /\ ctx = "live"
  /\ readScopes = [s \in ScopeIds |-> IF s = 1 THEN "live" ELSE "free"]
  /\ writeScopes = [s \in ScopeIds |-> IF s = 1 THEN "live" ELSE "free"]
  /\ readTimers = [t \in TimerIds |-> "free"]
  /\ writeTimers = [t \in TimerIds |-> "free"]
  /\ recvTasks = [t \in TaskIds |-> "none"]
  /\ sendTasks = [t \in TaskIds |-> "none"]
  /\ readDone = [t \in TaskIds |-> <<>>]
  /\ sendDone = [t \in TaskIds |-> <<>>]
  /\ reader = Idle /\ writer = Idle
  /\ ret = NoRet
  /\ readFresh = "none" /\ writeFresh = "none"
  /\ rdHist = NoHist

\* ------------------------------------------------------ scopes and timers
Done(scopes, s) == scopes[s] = "done"

\* the scopes still referenced: the field's and the one a blocked caller waits on
Collect(scopes, held) == [s \in ScopeIds |-> IF s \in held THEN scopes[s] ELSE "free"]

HeldBy(caller) == IF caller.pc = "select" THEN {caller.ctx} ELSE {}

\* select { case <-c.ctxRead.Done(): c.ctxRead, c.cancelRead = context.WithCancel(..) default: }
Refresh(c, scopes, held) ==
  IF Done(scopes, c)
    THEN LET n == MinOf(ScopeIds \ held)
         IN [ctx |-> n, scopes |-> [Collect(scopes, held) EXCEPT ![n] = "live"]]
    ELSE [ctx |-> c, scopes |-> scopes]

\* select { case <-c.ctxRead.Done(): default: c.cancelRead() }
Trip(c, scopes) == IF Done(scopes, c) THEN scopes ELSE [scopes EXCEPT ![c] = "done"]

\* c.readDeadline.Stop(): an armed timer never fires; one that has expired keeps
\* its callback.  The field is about to be overwritten, so the object is dropped
\* unless its callback is still to run.
Stop(deadline, timers) ==
  [t \in TimerIds |-> IF t = deadline /\ timers[t] # "fired" THEN "free" ELSE timers[t]]

CanArm(deadline, timers) == \E t \in TimerIds : Stop(deadline, timers)[t] = "free"

\* if c.readDeadline != nil { c.readDeadline.Stop() }; c.readDeadline = time.AfterFunc(..)
Rearm(deadline, timers) ==
  LET stopped == Stop(deadline, timers)
      n == MinOf({t \in TimerIds : stopped[t] = "free"})
  IN [deadline |-> n, timers |-> [stopped EXCEPT ![n] = "armed"]]

FreshAfter(fresh, future) ==
  IF future THEN (IF fresh = "tripped" THEN "refreshed" ELSE "none") ELSE "tripped"

\* the read half of a deadline call, under deadlineMu
ReadDl(future) ==
  /\ readFresh' = FreshAfter(readFresh, future)
  /\ IF future
       THEN /\ CanArm(readDeadline, readTimers)
            /\ LET r == Refresh(ctxRead, readScopes, HeldBy(reader))
                   a == Rearm(readDeadline, readTimers)
               IN /\ ctxRead' = r.ctx /\ readScopes' = r.scopes
                  /\ readDeadline' = a.deadline /\ readTimers' = a.timers
       ELSE /\ readScopes' = Trip(ctxRead, readScopes)
            /\ UNCHANGED <<ctxRead, readDeadline, readTimers>>

\* the write half of a deadline call, under deadlineMu
WriteDl(future) ==
  /\ writeFresh' = FreshAfter(writeFresh, future)
  /\ IF future
       THEN /\ CanArm(writeDeadline, writeTimers)
            /\ LET r == Refresh(ctxWrite, writeScopes, HeldBy(writer))
                   a == Rearm(writeDeadline, writeTimers)
               IN /\ ctxWrite' = r.ctx /\ writeScopes' = r.scopes
                  /\ writeDeadline' = a.deadline /\ writeTimers' = a.timers
       ELSE /\ writeScopes' = Trip(ctxWrite, writeScopes)
            /\ UNCHANGED <<ctxWrite, writeDeadline, writeTimers>>

SetDeadline(future) ==
  /\ ret' = Returns("SetDeadline", 0, Nil, <<>>)
  /\ ReadDl(future) /\ WriteDl(future)
  /\ UNCHANGED <<readSide, writeSide, ctx, cliVars, uses>>

SetReadDeadline(future) ==
  /\ ret' = Returns("SetReadDeadline", 0, Nil, <<>>)
  /\ ReadDl(future)
  /\ UNCHANGED <<writeDl, readSide, writeSide, ctx, cliVars, uses>>

SetWriteDeadline_TripsRead(future) ==
  /\ ret' = Returns("SetWriteDeadline", 0, Nil, <<>>)
  /\ WriteDl(future)
  /\ readScopes' = Trip(ctxRead, readScopes)
  /\ UNCHANGED <<readDeadline, ctxRead, readTimers, readFresh, readSide, writeSide, ctx, cliVars, uses>>

SetWriteDeadline(future) ==
  /\ ret' = Returns("SetWriteDeadline", 0, Nil, <<>>)
  /\ WriteDl(future)
  /\ UNCHANGED <<readDl, readSide, writeSide, ctx, cliVars, uses>>

\* the runtime finds the read timer due and starts its callback goroutine
ReadTimerExpire(t) ==
  /\ ret' = NoRet
  /\ readTimers[t] = "armed"
  /\ readTimers' = [readTimers EXCEPT ![t] = "fired"]
  /\ readFresh' = IF t = readDeadline THEN "none" ELSE readFresh
  /\ UNCHANGED <<readDeadline, ctxRead, readScopes, writeDl, readSide, writeSide, ctx, cliVars, uses>>

WriteTimerExpire(t) ==
  /\ ret' = NoRet
  /\ writeTimers[t] = "armed"
  /\ writeTimers' = [writeTimers EXCEPT ![t] = "fired"]
  /\ writeFresh' = IF t = writeDeadline THEN "none" ELSE writeFresh
  /\ UNCHANGED <<writeDeadline, ctxWrite, writeScopes, readDl, readSide, writeSide, ctx, cliVars, uses>>

\* the callback of an expired read timer: takes deadlineMu, trips whatever scope
\* c.ctxRead points at now, if it is live
ReadTimerFunc(t) ==
  /\ ret' = NoRet
  /\ readTimers[t] = "fired"
  /\ readScopes' = Trip(ctxRead, readScopes)
  /\ readTimers' = [readTimers EXCEPT ![t] = IF t = readDeadline THEN "dead" ELSE "free"]
  /\ UNCHANGED <<readDeadline, ctxRead, readFresh, writeDl, readSide, writeSide, ctx, cliVars, uses>>

WriteTimerFunc(t) ==
  /\ ret' = NoRet
  /\ writeTimers[t] = "fired"
  /\ writeScopes' = Trip(ctxWrite, writeScopes)
  /\ writeTimers' = [writeTimers EXCEPT ![t] = IF t = writeDeadline THEN "dead" ELSE "free"]
  /\ UNCHANGED <<writeDeadline, ctxWrite, writeFresh, readDl, readSide, writeSide, ctx, cliVars, uses>>

Close_Toggle ==
  /\ ret' = Returns("Close", 0, Nil, <<>>)
  /\ ctx' = IF ctx = "done" THEN "live" ELSE "done"
  /\ UNCHANGED <<readDl, writeDl, readSide, writeSide, cliVars, uses>>

\* select { case <-c.ctx.Done(): default: c.cancel() }; return nil
Close ==
  /\ ret' = Returns("Close", 0, Nil, <<>>)
  /\ ctx' = "done"
  /\ UNCHANGED <<readDl, writeDl, readSide, writeSide, cliVars, uses>>

\* ------------------------------------------------------------- Read path
\* copy(dst, src) with len(dst) = p: the number of bytes copied
CopyLen(p, src) == Min(p, Len(src))

Drop(s, n) == SubSeq(s, n + 1, Len(s))
Take(s, n) == SubSeq(s, 1, n)

\* pool.Get(size): a buffer of exactly size bytes, never nil
PoolGet(size) == [nil |-> FALSE, data |-> [i \in 1..size |-> 0]]

Leftover_KeepsAll(data, n) == [PoolGet(Len(data)) EXCEPT !.data = data]

\* c.buf = pool.Get(len(data) - n); copy(c.buf, data[n:])
Leftover(data, n) == [PoolGet(Len(data) - n) EXCEPT !.data = Drop(data, n)]

FastReady_NoDeadline(scopes, c) == IF ctx = "done" THEN {EOF} ELSE {}

\* the cases of the non-blocking select at the top of Read / Write that can
\* proceed; Go picks any of them, and the default case when there is none
FastReady(scopes, c) ==
  (IF Done(scopes, c) THEN {ErrDeadlineExceeded} ELSE {})
    \cup (IF ctx = "done" THEN {EOF} ELSE {})

WaitReady_NoClose(scopes, caller, chan) ==
  (IF Done(scopes, caller.ctx) THEN {ErrDeadlineExceeded} ELSE {})
    \cup (IF chan[caller.ch] # <<>> THEN {"done"} ELSE {})

\* the cases of the blocking select that can proceed: the scope captured when
\* the select was entered, the close scope, the completion channel
WaitReady(scopes, caller, chan) ==
  (IF Done(scopes, caller.ctx) THEN {ErrDeadlineExceeded} ELSE {})
    \cup (IF ctx = "done" THEN {EOF} ELSE {})
    \cup (IF chan[caller.ch] # <<>> THEN {"done"} ELSE {})


\* a Read that fails while leftover bytes wait ends the clean delivery
HistFail == IF buf.nil \/ ~rdHist.clean THEN rdHist ELSE NoHist

\* Read, lines 57-63
ReadStart(B) ==
  /\ reader.pc = "idle"
  /\ LET ready == FastReady(readScopes, ctxRead)
     IN IF ready = {}
          THEN /\ reader' = [Idle EXCEPT !.pc = "lock", !.p = B]
               /\ ret' = NoRet
               /\ UNCHANGED rdHist
          ELSE /\ \E e \in ready : ret' = Failed("Read", e)
               /\ rdHist' = HistFail
               /\ UNCHANGED reader
  /\ readFresh' = "none"
  /\ UNCHANGED <<buf, offset, muReading, muRecv, recvTasks, readDone>>
  /\ UNCHANGED <<readDeadline, ctxRead, readScopes, readTimers, writeDl, writeSide, ctx, cliVars, uses>>

FreeTasks(tasks) == {t \in TaskIds : tasks[t] = "none"}

\* Read, lines 65-88: the leftover path, or the launch of the background receive
\* and the entry into the blocking select
ReadBody ==
  /\ reader.pc = "lock" /\ ~muReading
  /\ IF ~buf.nil
       THEN LET n == CopyLen(reader.p, Drop(buf.data, offset))
                data == SubSeq(buf.data, offset + 1, offset + n)
            IN /\ offset' = offset + n
               /\ buf' = IF offset + n = Len(buf.data) THEN NilBuf ELSE buf
               /\ ret' = Returns("Read", n, Nil, data)
               /\ rdHist' = IF rdHist.clean /\ reader.p = rdHist.b /\ reader.p > 0
                              THEN [rdHist EXCEPT !.got = @ \o data, !.reads = @ + 1]
                              ELSE NoHist
               /\ reader' = Idle
               /\ UNCHANGED <<muReading, recvTasks>>
       ELSE /\ FreeTasks(recvTasks) # {}
            /\ LET t == MinOf(FreeTasks(recvTasks))
               IN /\ recvTasks' = [recvTasks EXCEPT ![t] = "lock"]
                  /\ reader' = [reader EXCEPT !.pc = "select", !.ctx = ctxRead, !.ch = t]
            /\ muReading' = TRUE
            /\ ret' = NoRet
            /\ UNCHANGED <<buf, offset, rdHist>>
  /\ UNCHANGED <<muRecv, readDone, readDl, writeDl, writeSide, ctx, cliVars, uses>>

\* the channel holds a result with payload bytes
HasBytes(ch) == ch # <<>> /\ Head(ch).err = Nil /\ Len(Head(ch).data) > 0

\* Read, lines 89-107
ReadSelect ==
  /\ reader.pc = "select"
  /\ \E c \in WaitReady(readScopes, reader, readDone) :
       IF c # "done"
         THEN /\ ret' = Failed("Read", c)
              /\ UNCHANGED <<buf, offset, rdHist>>
         ELSE LET recvResp == Head(readDone[reader.ch])
                  n == CopyLen(reader.p, recvResp.data)
              IN IF recvResp.err # Nil
                   THEN /\ ret' = Failed("Read", Translate(recvResp.err))
                        /\ UNCHANGED <<buf, offset, rdHist>>
                   ELSE /\ buf' = Leftover(recvResp.data, n)
                        /\ offset' = 0
                        /\ ret' = Returns("Read", n, Nil, Take(recvResp.data, n))
                        /\ rdHist' = IF reader.p > 0
                                        THEN [msg |-> recvResp.data, got |-> Take(recvResp.data, n),
                                              reads |-> 1, b |-> reader.p, clean |-> TRUE]
                                        ELSE NoHist
  /\ reader' = Idle
  /\ muReading' = FALSE
  /\ readDone' = [readDone EXCEPT ![reader.ch] = <<>>]
  /\ readScopes' = Collect(readScopes, {ctxRead})
  /\ UNCHANGED <<muRecv, recvTasks, readDeadline, ctxRead, readTimers, readFresh>>
  /\ UNCHANGED <<writeDl, writeSide, ctx, cliVars, uses>>

RecvLock_NoMutex(t) ==
  /\ ret' = NoRet
  /\ recvTasks[t] = "lock"
  /\ muRecv' = TRUE
  /\ recvTasks' = [recvTasks EXCEPT ![t] = "call"]
  /\ UNCHANGED <<buf, offset, muReading, readDone, reader, rdHist>>
  /\ UNCHANGED <<readDl, writeDl, writeSide, ctx, cliVars, uses>>

\* background receive, line 81: c.muRecv.Lock()
RecvLock(t) ==
  /\ ret' = NoRet
  /\ recvTasks[t] = "lock" /\ ~muRecv
  /\ muRecv' = TRUE
  /\ recvTasks' = [recvTasks EXCEPT ![t] = "call"]
  /\ UNCHANGED <<buf, offset, muReading, readDone, reader, rdHist>>
  /\ UNCHANGED <<readDl, writeDl, writeSide, ctx, cliVars, uses>>

\* what c.tun.Recv() can return
RecvResps(lens) ==
  {[data |-> Bytes(L), err |-> Nil] : L \in lens}
    \cup {[data |-> <<>>, err |-> e] : e \in TunErrs}

RecvReturn_Unbuffered(t, resp) ==
  /\ ret' = NoRet
  /\ recvTasks[t] = "call"
  /\ reader.pc = "select" /\ reader.ch = t
  /\ recvTasks' = [recvTasks EXCEPT ![t] = "none"]
  /\ readDone' = [readDone EXCEPT ![t] = <<resp>>]
  /\ muRecv' = FALSE
  /\ UNCHANGED <<buf, offset, muReading, reader, rdHist>>
  /\ UNCHANGED <<readDl, writeDl, writeSide, ctx, cliVars, uses>>

\* background receive, lines 83-88: Recv returns, the result goes into the
\* channel (kept only while the Read still holds it), muRecv is released
RecvReturn(t, resp) ==
  /\ ret' = NoRet
  /\ recvTasks[t] = "call"
  /\ recvTasks' = [recvTasks EXCEPT ![t] = "none"]
  /\ readDone' = IF reader.pc = "select" /\ reader.ch = t
                   THEN [readDone EXCEPT ![t] = <<resp>>]
                   ELSE readDone
  /\ muRecv' = FALSE
  /\ UNCHANGED <<buf, offset, muReading, reader, rdHist>>
  /\ UNCHANGED <<readDl, writeDl, writeSide, ctx, cliVars, uses>>

\* ------------------------------------------------------------ Write path
\* Write, lines 111-117
WriteStart(B) ==
  /\ writer.pc = "idle"
  /\ LET ready == FastReady(writeScopes, ctxWrite)
     IN IF ready = {}
          THEN /\ writer' = [Idle EXCEPT !.pc = "lock", !.p = B]
               /\ ret' = NoRet
          ELSE /\ \E e \in ready : ret' = Failed("Write", e)
               /\ UNCHANGED writer
  /\ writeFresh' = "none"
  /\ UNCHANGED <<muWriting, muSend, sendTasks, sendDone>>
  /\ UNCHANGED <<writeDeadline, ctxWrite, writeScopes, writeTimers, readDl, readSide, ctx, cliVars, uses>>

\* Write, lines 119-130: the launch of the background send and the entry into
\* the blocking select
WriteBody ==
  /\ ret' = NoRet
  /\ writer.pc = "lock" /\ ~muWriting
  /\ FreeTasks(sendTasks) # {}
  /\ LET t == MinOf(FreeTasks(sendTasks))
     IN /\ sendTasks' = [sendTasks EXCEPT ![t] = "lock"]
        /\ writer' = [writer EXCEPT !.pc = "select", !.ctx = ctxWrite, !.ch = t]
  /\ muWriting' = TRUE
  /\ UNCHANGED <<muSend, sendDone, readDl, writeDl, readSide, ctx, cliVars, uses>>

\* Write, lines 131-141
WriteSelect ==
  /\ writer.pc = "select"
  /\ \E c \in WaitReady(writeScopes, writer, sendDone) :
       IF c # "done"
         THEN ret' = Failed("Write", c)
         ELSE ret' = Returns("Write", writer.p, Translate(Head(sendDone[writer.ch])), <<>>)
  /\ writer' = Idle
  /\ muWriting' = FALSE
  /\ sendDone' = [sendDone EXCEPT ![writer.ch] = <<>>]
  /\ writeScopes' = Collect(writeScopes, {ctxWrite})
  /\ UNCHANGED <<muSend, sendTasks, writeDeadline, ctxWrite, writeTimers, writeFresh>>
  /\ UNCHANGED <<readDl, readSide, ctx, cliVars, uses>>

\* background send, line 126: c.muSend.Lock()
SendLock(t) ==
  /\ ret' = NoRet
  /\ sendTasks[t] = "lock" /\ ~muSend
  /\ muSend' = TRUE
  /\ sendTasks' = [sendTasks EXCEPT ![t] = "call"]
  /\ UNCHANGED <<muWriting, sendDone, writer, readDl, writeDl, readSide, ctx, cliVars, uses>>

\* what c.tun.Send() can return
SendErrs == {Nil} \cup TunErrs

\* background send, lines 128-130
SendReturn(t, e) ==
  /\ ret' = NoRet
  /\ sendTasks[t] = "call"
  /\ sendTasks' = [sendTasks EXCEPT ![t] = "none"]
  /\ sendDone' = IF writer.pc = "select" /\ writer.ch = t
                   THEN [sendDone EXCEPT ![t] = <<e>>]
                   ELSE sendDone
  /\ muSend' = FALSE
  /\ UNCHANGED <<muWriting, writer, readDl, writeDl, readSide, ctx, cliVars, uses>>

\* ------------------------------------------------------ hysteria2 client
closeErrCodeOK == 256
closeErrCodeProtocolError == 257
StatusAuthOK == 233

\* bandwidth values: the small ones and the ones the specification's table names
Rates == (0..MaxRate) \cup {3000, 5000}
Statuses == {StatusAuthOK, 404}

\* what the environment decides during one NewClient call
ConnectInputs ==
  [cfgErr : BOOLEAN,       \* config.verifyAndFill fails
   factoryErr : BOOLEAN,   \* ConnFactory.New fails
   dialed : BOOLEAN,       \* the Dial hook ran and captured a connection
   rtErr : BOOLEAN,        \* rt.RoundTrip fails
   status : Statuses,      \* resp.StatusCode
   RxAuto : BOOLEAN, Rx : Rates, UDPEnabled : BOOLEAN,  \* the auth response
   MaxTx : Rates]          \* config.BandwidthConfig.MaxTx

NoInfo == [UDPEnabled |-> FALSE, Tx |-> 0]
NoHs == [pc |-> "new", in |-> <<>>, client |-> FALSE, info |-> <<>>, err |-> Nil,
         errCode |-> 0, pktConn |-> "none", conn |-> "none", connCloseCode |-> 0,
         cc |-> "none", ccRate |-> 0, udpSM |-> FALSE]

ActualTx_NoZeroCheck(RxAuto, Rx, MaxTx) ==
  IF RxAuto THEN 0
  ELSE IF Rx > MaxTx THEN MaxTx ELSE Rx

\* connect, lines 128-139: actualTx
ActualTx(RxAuto, Rx, MaxTx) ==
  IF RxAuto THEN 0
  ELSE IF Rx = 0 \/ Rx > MaxTx THEN MaxTx ELSE Rx

Congestion_NoFallback(RxAuto, Rx, MaxTx) ==
  IF RxAuto
    THEN [cc |-> "BBR", ccRate |-> 0]
    ELSE [cc |-> "Brutal", ccRate |-> ActualTx(RxAuto, Rx, MaxTx)]

\* connect, lines 129-146: the strategy installed on the connection
Congestion(RxAuto, Rx, MaxTx) ==
  IF RxAuto
    THEN [cc |-> "BBR", ccRate |-> 0]
    ELSE IF ActualTx(RxAuto, Rx, MaxTx) > 0
           THEN [cc |-> "Brutal", ccRate |-> ActualTx(RxAuto, Rx, MaxTx)]
           ELSE [cc |-> "BBR", ccRate |-> 0]

connect_NoCleanup(in) ==
  IF in.factoryErr
    THEN [NoHs EXCEPT !.pc = "failed", !.in = in, !.err = "factory"]
  ELSE IF in.rtErr
    THEN [NoHs EXCEPT !.pc = "failed", !.in = in, !.err = "ConnectError",
                      !.conn = IF in.dialed THEN "open" ELSE "none",
                      !.pktConn = "open"]
  ELSE IF in.status # StatusAuthOK
    THEN [NoHs EXCEPT !.pc = "failed", !.in = in, !.err = "AuthError",
                      !.errCode = in.status, !.conn = "open", !.pktConn = "open"]
  ELSE [NoHs EXCEPT !.pc = "connected", !.in = in, !.client = TRUE,
                    !.info = <<[UDPEnabled |-> in.UDPEnabled, Tx |-> 0]>>,
                    !.pktConn = "open", !.conn = "open", !.cc = "BBR"]

\* clientImpl.connect: the state it leaves and what it returns
connect(in) ==
  IF in.factoryErr
    THEN [NoHs EXCEPT !.pc = "failed", !.in = in, !.err = "factory"]
  ELSE IF in.rtErr
    THEN [NoHs EXCEPT !.pc = "failed", !.in = in, !.err = "ConnectError",
                      !.conn = IF in.dialed THEN "closed" ELSE "none",
                      !.connCloseCode = IF in.dialed THEN closeErrCodeProtocolError ELSE 0,
                      !.pktConn = "closed"]
  ELSE IF in.status # StatusAuthOK
    THEN [NoHs EXCEPT !.pc = "failed", !.in = in, !.err = "AuthError",
                      !.errCode = in.status, !.conn = "closed",
                      !.connCloseCode = closeErrCodeProtocolError, !.pktConn = "closed"]
  ELSE [NoHs EXCEPT !.pc = "connected", !.in = in, !.client = TRUE,
                    !.info = <<[UDPEnabled |-> in.UDPEnabled,
                                Tx |-> ActualTx(in.RxAuto, in.Rx, in.MaxTx)]>>,
                    !.pktConn = "open", !.conn = "open",
                    !.cc = Congestion(in.RxAuto, in.Rx, in.MaxTx).cc,
                    !.ccRate = Congestion(in.RxAuto, in.Rx, in.MaxTx).ccRate,
                    !.udpSM = in.UDPEnabled]

\* a RoundTrip that succeeded has dialled; fields the call never reads are fixed
Feasible(in) ==
  /\ ~in.rtErr => in.dialed
  /\ in.cfgErr => ~in.factoryErr
  /\ (in.cfgErr \/ in.factoryErr) => (~in.dialed /\ ~in.rtErr)
  /\ (in.cfgErr \/ in.factoryErr \/ in.rtErr) => in.status = StatusAuthOK
  /\ (in.cfgErr \/ in.factoryErr \/ in.rtErr \/ in.status # StatusAuthOK)
       => (~in.RxAuto /\ in.Rx = 0 /\ ~in.UDPEnabled)

NewClient(in) ==
  /\ hs.pc = "new"
  /\ hs' = IF in.cfgErr
             THEN [NoHs EXCEPT !.pc = "failed", !.in = in, !.err = "config"]
             ELSE connect(in)
  /\ UNCHANGED <<connVars, tcp, udp, uses>>

\* -------------------------------------------------- accesses to ServerConn
\* one access of a step to a field of the ServerConn: whether it writes, and
\* the locks the goroutine holds while it makes it
Acc(field, write, locks) == [field |-> field, write |-> write, locks |-> locks]

\* Read: the fields the next step of the calling goroutine touches
ReadAccesses ==
  CASE reader.pc = "idle" ->
         \* lines 57-63: the non-blocking select, before any lock
         {Acc("ctxRead", FALSE, {}), Acc("ctx", FALSE, {})}
    [] reader.pc = "lock" ->
         \* lines 65-75 and the operands of the select at line 89
         IF ~buf.nil
           THEN {Acc("buf", TRUE, {"muReading"}), Acc("offset", TRUE, {"muReading"})}
           ELSE {Acc("buf", FALSE, {"muReading"}),
                 Acc("ctxRead", FALSE, {"muReading"}), Acc("ctx", FALSE, {"muReading"})}
    [] OTHER ->
         \* lines 94-106
         {Acc("buf", TRUE, {"muReading"}), Acc("offset", TRUE, {"muReading"})}

\* Write: the fields the next step of the calling goroutine touches
WriteAccesses ==
  CASE writer.pc = "idle" -> {Acc("ctxWrite", FALSE, {}), Acc("ctx", FALSE, {})}
    [] writer.pc = "lock" ->
         {Acc("ctxWrite", FALSE, {"muWriting"}), Acc("ctx", FALSE, {"muWriting"})}
    [] OTHER -> {}

\* the read half of a deadline call: lines 218-244
ReadDlAccesses(future) ==
  {Acc("ctxRead", FALSE, {"deadlineMu"})}
    \cup (IF future /\ Done(readScopes, ctxRead)
            THEN {Acc("ctxRead", TRUE, {"deadlineMu"})} ELSE {})
    \cup (IF future THEN {Acc("readDeadline", TRUE, {"deadlineMu"})} ELSE {})
WriteDlAccesses(future) ==
  {Acc("ctxWrite", FALSE, {"deadlineMu"})}
    \cup (IF future /\ Done(writeScopes, ctxWrite)
            THEN {Acc("ctxWrite", TRUE, {"deadlineMu"})} ELSE {})
    \cup (IF future THEN {Acc("writeDeadline", TRUE, {"deadlineMu"})} ELSE {})

\* the steps that can be taken next, each with the goroutine that takes it and
\* the accesses it makes
Running ==
  (IF "Read" \in uses /\ (reader.pc = "idle" \/ ENABLED ReadBody \/ ENABLED ReadSelect)
     THEN {[g |-> "Read", acc |-> ReadAccesses]} ELSE {})
  \cup (IF "Write" \in uses /\ (writer.pc = "idle" \/ ENABLED WriteBody \/ ENABLED WriteSelect)
     THEN {[g |-> "Write", acc |-> WriteAccesses]} ELSE {})
  \cup {[g |-> "SetReadDeadline", acc |-> ReadDlAccesses(f)] :
          f \in {f \in BOOLEAN : "SetReadDeadline" \in uses /\ ENABLED SetReadDeadline(f)}}
  \cup {[g |-> "SetWriteDeadline", acc |-> WriteDlAccesses(f)] :
          f \in {f \in BOOLEAN : "SetWriteDeadline" \in uses /\ ENABLED SetWriteDeadline(f)}}
  \cup {[g |-> "SetDeadline", acc |-> ReadDlAccesses(f) \cup WriteDlAccesses(f)] :
          f \in {f \in BOOLEAN : "SetDeadline" \in uses /\ ENABLED SetDeadline(f)}}
  \cup {[g |-> "readTimer", acc |-> {Acc("ctxRead", FALSE, {"deadlineMu"})}] :
          t \in {t \in TimerIds : "ReadTimer" \in uses /\ ENABLED ReadTimerFunc(t)}}
  \cup {[g |-> "writeTimer", acc |-> {Acc("ctxWrite", FALSE, {"deadlineMu"})}] :
          t \in {t \in TimerIds : "WriteTimer" \in uses /\ ENABLED WriteTimerFunc(t)}}
  \cup (IF "Close" \in uses THEN {[g |-> "Close", acc |-> {Acc("ctx", FALSE, {})}]} ELSE {})

\* two accesses that the Go memory model calls a data race when nothing
\* orders them
Conflict(a, b) ==
  a.field = b.field /\ (a.write \/ b.write) /\ a.locks \cap b.locks = {}

\* the pairs of steps of two goroutines, both ready to run, that race
Races ==
  {<<s, r>> \in Running \X Running :
     s.g # r.g /\ \E a \in s.acc, b \in r.acc : Conflict(a, b)}

\* ------------------------------------------------- hysteria2 client: TCP
MaxTcpReads == 3
MaxTcpBuf == 2

\* the message of a server's rejection
RejectMsgs == {"m1", "m2"}
\* a string is the sequence of the pieces it was concatenated from
Contains(s, m) == \E i \in 1..Len(s) : s[i] = m
\* errors of quic-go: one that is a temporary net.Error, one that is not
QuicErrs == {"net.Temporary", "quic.Closed"}

DialError(Message) == [type |-> "DialError", Message |-> Message, Err |-> Nil]
ClosedError(err) == [type |-> "ClosedError", Message |-> <<>>, Err |-> err]
PlainError(err) == [type |-> "error", Message |-> <<>>, Err |-> err]
NoError == [type |-> "nil", Message |-> <<>>, Err |-> Nil]

\* wrapIfConnectionClosed
wrapIfConnectionClosed(err) ==
  IF err # "net.Temporary" THEN ClosedError(err) ELSE PlainError(err)

\* what the environment decides for one stream: the outcome of OpenStream
\* and of WriteTCPRequest, and what the server answers to the request
TCPInputs ==
  [FastOpen : BOOLEAN,            \* c.config.FastOpen
   openErr : {Nil} \cup QuicErrs, \* c.conn.OpenStream()
   writeErr : {Nil} \cup QuicErrs, \* protocol.WriteTCPRequest
   answer : {"ok", "reject"} \cup QuicErrs,  \* what reading the response gives
   msg : RejectMsgs]

NoTcpRet == [op |-> "none", conn |-> FALSE, n |-> 0, err |-> NoError]
NoTcp == [pc |-> "none", in |-> <<>>, stream |-> "none", respReads |-> 0,
          Established |-> FALSE, reads |-> 0, ret |-> NoTcpRet]

\* protocol.ReadTCPResponse(stream): the server's answer the first time; the
\* server sends nothing after an answer that was not a success
ReadTCPResponse(t) ==
  IF t.respReads = 0
    THEN [ok |-> t.in[1].answer = "ok", msg |-> t.in[1].msg,
          err |-> IF t.in[1].answer \in QuicErrs THEN t.in[1].answer ELSE Nil]
    ELSE [ok |-> FALSE, msg |-> "", err |-> "quic.Closed"]

TcpReturns(conn, err) == [op |-> "TCP", conn |-> conn, n |-> 0, err |-> err]

TCP_FastOpenEstablished(in) ==
  /\ hs.pc = "connected" /\ tcp.pc = "none"
  /\ tcp' = [NoTcp EXCEPT !.pc = "conn", !.in = <<in>>, !.stream = "open",
                          !.Established = TRUE, !.ret = TcpReturns(TRUE, NoError)]
  /\ UNCHANGED <<connVars, hs, udp, uses>>

\* clientImpl.TCP
TCP(in) ==
  /\ hs.pc = "connected" /\ tcp.pc = "none"
  /\ LET t == [NoTcp EXCEPT !.in = <<in>>]
         resp == ReadTCPResponse(t)
     IN tcp' =
          IF in.openErr # Nil
            THEN [t EXCEPT !.pc = "failed",
                           !.ret = TcpReturns(FALSE, wrapIfConnectionClosed(in.openErr))]
          ELSE IF in.writeErr # Nil
            THEN [t EXCEPT !.pc = "failed", !.stream = "closed",
                           !.ret = TcpReturns(FALSE, wrapIfConnectionClosed(in.writeErr))]
          ELSE IF in.FastOpen
            THEN [t EXCEPT !.pc = "conn", !.stream = "open", !.Established = FALSE,
                           !.ret = TcpReturns(TRUE, NoError)]
          ELSE IF resp.err # Nil
            THEN [t EXCEPT !.pc = "failed", !.stream = "closed", !.respReads = 1,
                           !.ret = TcpReturns(FALSE, wrapIfConnectionClosed(resp.err))]
          ELSE IF ~resp.ok
            THEN [t EXCEPT !.pc = "failed", !.stream = "closed", !.respReads = 1,
                           !.ret = TcpReturns(FALSE, DialError(<<"from remote: ", resp.msg>>))]
          ELSE [t EXCEPT !.pc = "conn", !.stream = "open", !.respReads = 1,
                         !.Established = TRUE, !.ret = TcpReturns(TRUE, NoError)]
  /\ UNCHANGED <<connVars, hs, udp, uses>>

\* what c.Orig.Read(b) can return for len(b) = B
OrigReads(B) ==
  {[n |-> n, err |-> NoError] : n \in 0..B}
    \cup {[n |-> 0, err |-> PlainError(e)] : e \in QuicErrs}

TcpReadReturns(n, err) == [op |-> "Read", conn |-> FALSE, n |-> n, err |-> err]

tcpConn_Read_SkipsValidation(B, out) ==
  /\ tcp.pc = "conn" /\ tcp.reads < MaxTcpReads
  /\ tcp' = [tcp EXCEPT !.reads = @ + 1, !.Established = TRUE,
                        !.ret = TcpReadReturns(out.n, out.err)]
  /\ UNCHANGED <<connVars, hs, udp, uses>>

\* tcpConn.Read
tcpConn_Read(B, out) ==
  /\ tcp.pc = "conn" /\ tcp.reads < MaxTcpReads
  /\ LET resp == ReadTCPResponse(tcp)
         t == [tcp EXCEPT !.reads = @ + 1]
     IN tcp' =
          IF ~tcp.Established
            THEN IF resp.err # Nil
                   THEN [t EXCEPT !.respReads = @ + 1,
                                  !.ret = TcpReadReturns(0, PlainError(resp.err))]
                 ELSE IF ~resp.ok
                   THEN [t EXCEPT !.respReads = @ + 1,
                                  !.ret = TcpReadReturns(0, DialError(<<resp.msg>>))]
                 ELSE [t EXCEPT !.respReads = @ + 1, !.Established = TRUE,
                                !.ret = TcpReadReturns(out.n, out.err)]
            ELSE [t EXCEPT !.ret = TcpReadReturns(out.n, out.err)]
  /\ UNCHANGED <<connVars, hs, udp, uses>>

\* ---------------------------------------- hysteria2 client: udpIOImpl
MaxDatagrams == 3

\* datagrams the connection can deliver: two that parse and two that do not
Datagrams == {[payload |-> p, wellFormed |-> w] : p \in {"a", "b"}, w \in BOOLEAN}

\* protocol.ParseUDPMessage(msg)
ParseUDPMessage(d) ==
  IF d.wellFormed THEN [udpMsg |-> <<d.payload>>, err |-> Nil]
                  ELSE [udpMsg |-> <<>>, err |-> "parse"]

\* what io.Conn.ReceiveDatagram can return
DatagramResults ==
  {[msg |-> <<d>>, err |-> Nil] : d \in Datagrams}
    \cup {[msg |-> <<>>, err |-> e] : e \in QuicErrs}

NoUdpRet == [op |-> "none", udpMsg |-> <<>>, err |-> Nil]
\* got: what ReceiveDatagram has returned during the call in progress or the
\* call that returned last
NoUdp == [pc |-> "idle", got |-> <<>>, ret |-> NoUdpRet]

UdpReturns(udpMsg, err) == [op |-> "ReceiveMessage", udpMsg |-> udpMsg, err |-> err]

\* udpIOImpl.ReceiveMessage is called (by the session manager connect installed)
ReceiveMessage ==
  /\ hs.pc = "connected" /\ hs.udpSM
  /\ udp.pc = "idle"
  /\ udp' = [pc |-> "recv", got |-> <<>>, ret |-> NoUdpRet]
  /\ UNCHANGED <<connVars, hs, tcp, uses>>

ReceiveDatagram_AbortsOnMalformed(r) ==
  /\ udp.pc = "recv" /\ Len(udp.got) < MaxDatagrams
  /\ udp' = IF r.err # Nil
              THEN [pc |-> "idle", got |-> Append(udp.got, r), ret |-> UdpReturns(<<>>, r.err)]
              ELSE [pc |-> "idle", got |-> Append(udp.got, r),
                    ret |-> UdpReturns(ParseUDPMessage(r.msg[1]).udpMsg,
                                       ParseUDPMessage(r.msg[1]).err)]
  /\ UNCHANGED <<connVars, hs, tcp, uses>>

\* one turn of the loop of ReceiveMessage: ReceiveDatagram returns r
ReceiveDatagram(r) ==
  /\ udp.pc = "recv" /\ Len(udp.got) < MaxDatagrams
  /\ udp' = IF r.err # Nil
              THEN [pc |-> "idle", got |-> Append(udp.got, r), ret |-> UdpReturns(<<>>, r.err)]
            ELSE IF ParseUDPMessage(r.msg[1]).err # Nil
              THEN [udp EXCEPT !.got = Append(udp.got, r)]
            ELSE [pc |-> "idle", got |-> Append(udp.got, r),
                  ret |-> UdpReturns(ParseUDPMessage(r.msg[1]).udpMsg, Nil)]
  /\ UNCHANGED <<connVars, hs, tcp, uses>>

\* ---------------------------------------------------------- specification
\* One behaviour exercises one group of operations: the two directions of a
\* ServerConn share only the close scope and deadlineMu, so the product of all
\* of them is explored one combination at a time.
Scenarios ==
  { {"Read", "SetReadDeadline", "ReadTimer", "Close"},
    {"Write", "SetWriteDeadline", "WriteTimer", "Close"},
    {"Read", "SetWriteDeadline", "WriteTimer"},
    {"Write", "SetReadDeadline", "ReadTimer"},
    {"Read", "Write"},
    {"Read", "SetDeadline"},
    {"Write", "SetDeadline"},
    {"SetDeadline", "SetReadDeadline", "SetWriteDeadline", "ReadTimer", "WriteTimer"},
    {"Read", "ReadBig", "SetReadDeadline", "Close"},
    {"NewClient"},
    {"NewClient", "TCP"},
    {"NewClient", "UDP"} }

Init == InitConn /\ hs = NoHs /\ tcp = NoTcp /\ udp = NoUdp /\ uses \in Scenarios

\* the inputs of the scenario: long hunks and buffers where the leftover
\* buffer alone is exercised
Bufs == IF "ReadBig" \in uses THEN BigBufLens ELSE BufLens
Lens == IF "ReadBig" \in uses THEN BigMsgLens ELSE MsgLens

Next ==
  \/ "Read" \in uses /\ \E B \in Bufs : ReadStart(B)
  \/ "Read" \in uses /\ ReadBody
  \/ "Read" \in uses /\ ReadSelect
  \/ "Read" \in uses /\ \E t \in TaskIds : RecvLock(t)
  \/ "Read" \in uses /\ \E t \in TaskIds, resp \in RecvResps(Lens) : RecvReturn(t, resp)
  \/ "Write" \in uses /\ \E B \in BufLens : WriteStart(B)
  \/ "Write" \in uses /\ WriteBody
  \/ "Write" \in uses /\ WriteSelect
  \/ "Write" \in uses /\ \E t \in TaskIds : SendLock(t)
  \/ "Write" \in uses /\ \E t \in TaskIds, e \in SendErrs : SendReturn(t, e)
  \/ "SetDeadline" \in uses /\ \E future \in BOOLEAN : SetDeadline(future)
  \/ "SetReadDeadline" \in uses /\ \E future \in BOOLEAN : SetReadDeadline(future)
  \/ "SetWriteDeadline" \in uses /\ \E future \in BOOLEAN : SetWriteDeadline(future)
  \/ "ReadTimer" \in uses /\ \E t \in TimerIds : ReadTimerExpire(t)
  \/ "ReadTimer" \in uses /\ \E t \in TimerIds : ReadTimerFunc(t)
  \/ "WriteTimer" \in uses /\ \E t \in TimerIds : WriteTimerExpire(t)
  \/ "WriteTimer" \in uses /\ \E t \in TimerIds : WriteTimerFunc(t)
  \/ "Close" \in uses /\ Close
  \/ "NewClient" \in uses /\ hs.pc = "new" /\ \E in \in ConnectInputs : Feasible(in) /\ NewClient(in)
  \/ "UDP" \in uses /\ ReceiveMessage
  \/ "UDP" \in uses /\ \E r \in DatagramResults : ReceiveDatagram(r)
  \/ "TCP" \in uses /\ tcp.pc = "none" /\ \E in \in TCPInputs : TCP(in)
  \/ "TCP" \in uses /\ tcp.pc = "conn" /\ \E B \in 0..MaxTcpBuf : \E out \in OrigReads(B) : tcpConn_Read(B, out)

Spec == Init /\ [][Next]_vars

\* ================================================================ claims
ReadScopeDone == Done(readScopes, ctxRead)
WriteScopeDone == Done(writeScopes, ctxWrite)
\* a Read (Write) passes the fast-fail check in this step
ReadProceeds == reader.pc = "idle" /\ reader'.pc = "lock"
WriteProceeds == writer.pc = "idle" /\ writer'.pc = "lock"
\* a Read (Write) starts in this step: it passes the check or fails at it
ReadStarts == reader.pc = "idle" /\ (reader'.pc = "lock" \/ ret'.op = "Read")
WriteStarts == writer.pc = "idle" /\ (writer'.pc = "lock" \/ ret'.op = "Write")
RecvLive == {t \in TaskIds : recvTasks[t] # "none"}
SendLive == {t \in TaskIds : sendTasks[t] # "none"}
RecvInCall == {t \in TaskIds : recvTasks[t] = "call"}
SendInCall == {t \in TaskIds : sendTasks[t] = "call"}

\* C1: once a deadline call in the past has tripped a direction's scope and the
\* next deadline call of that direction sets a future time, the first Read
\* (Write) started before that time is reached does not fail with
\* deadline-exceeded; it goes on to the leftover buffer or the transport (it
\* can only fail with end-of-stream, after Close).
C1_DeadlineRefresh ==
  [][ /\ (readFresh = "refreshed" /\ ReadStarts) =>
           (ret'.err # ErrDeadlineExceeded /\ (ctx = "live" => ReadProceeds))
      /\ (writeFresh = "refreshed" /\ WriteStarts) =>
           (ret'.err # ErrDeadlineExceeded /\ (ctx = "live" => WriteProceeds)) ]_vars

CeilDiv(a, b) == (a + b - 1) \div b

\* the delivery recorded so far is the hunk's prefix, B bytes per Read
C2_Delivery ==
  (rdHist.clean /\ Len(rdHist.msg) > rdHist.b) =>
    LET L == Len(rdHist.msg)
        B == rdHist.b
    IN /\ rdHist.reads <= CeilDiv(L, B)
       /\ rdHist.got = Take(rdHist.msg, Min(L, rdHist.reads * B))
       /\ rdHist.reads < CeilDiv(L, B) => (~buf.nil /\ offset < Len(buf.data))
       /\ rdHist.reads = CeilDiv(L, B) => (buf.nil /\ rdHist.got = rdHist.msg)
\* no background receive is launched while the hunk is being delivered
C2_NoSecondReceive ==
  (rdHist.clean /\ rdHist.reads < CeilDiv(Len(rdHist.msg), rdHist.b)) =>
    \A t \in TaskIds : recvTasks[t] = "none" => recvTasks'[t] = "none"

\* C2: a hunk of length L read with buffers of one length B, L > B > 0, while
\* no Read fails: the bytes returned so far are the hunk's first bytes in
\* order, B per Read; leftover bytes remain (so the next Read makes no
\* transport call) exactly until ceil(L / B) Reads have returned, and then
\* the bytes returned are the whole hunk; no background receive is launched
\* between the first and the last of these Reads.
C2_PartialBuffering == []C2_Delivery /\ [][C2_NoSecondReceive]_vars

\* a hunk of 3 bytes has been delivered by Reads with 2-byte buffers
C2_Witness ==
  /\ rdHist.clean /\ Len(rdHist.msg) = 3 /\ rdHist.b = 2
  /\ rdHist.reads = 2 /\ buf.nil /\ rdHist.got = <<1, 2, 3>>

\* C3: a Write that returns an error returns n = 0.
C3_WriteErrorReturnsZero ==
  (ret.op = "Write" /\ ret.err # Nil) => ret.n = 0

\* ------------------------------------------------------------------- C4
\* the fairness the Go scheduler gives: a caller whose blocking select has a
\* ready case is eventually run
LiveSpec == Spec /\ WF_vars(ReadSelect) /\ WF_vars(WriteSelect)

ReadBlocked == reader.pc = "select" /\ readDone[reader.ch] = <<>>
WriteBlocked == writer.pc = "select" /\ sendDone[writer.ch] = <<>>
ReadCancelled == Done(readScopes, reader.ctx) \/ ctx = "done"
WriteCancelled == Done(writeScopes, writer.ctx) \/ ctx = "done"

\* the error a blocked caller returns with: the one of the scope that has
\* tripped (either one when both have), and none while neither has
CancelErrOK(op, tripped) ==
  ret'.op = op =>
    /\ ret'.n = 0
    /\ ret'.err \in {ErrDeadlineExceeded, EOF}
    /\ ret'.err = ErrDeadlineExceeded => tripped
    /\ ret'.err = EOF => ctx = "done"
C4_ReturnsCancelError ==
  /\ ReadBlocked => CancelErrOK("Read", Done(readScopes, reader.ctx))
  /\ WriteBlocked => CancelErrOK("Write", Done(writeScopes, writer.ctx))
\* a cancelled caller can leave its select; a deadline call that does not set
\* a future time, and Close, can always run;
\* one that sets a future time can run whenever a timer can be armed
C4_CallsReturn ==
  /\ (ReadBlocked /\ ReadCancelled) => ENABLED ReadSelect
  /\ (WriteBlocked /\ WriteCancelled) => ENABLED WriteSelect
  /\ ENABLED Close
  /\ ENABLED SetDeadline(FALSE)
  /\ ENABLED SetReadDeadline(FALSE)
  /\ ENABLED SetWriteDeadline(FALSE)
  /\ CanArm(readDeadline, readTimers) => ENABLED SetReadDeadline(TRUE)
  /\ CanArm(writeDeadline, writeTimers) => ENABLED SetWriteDeadline(TRUE)
  /\ (CanArm(readDeadline, readTimers) /\ CanArm(writeDeadline, writeTimers))
       => ENABLED SetDeadline(TRUE)

\* C4: a Read (Write) blocked on a background receive (send) that has not
\* returned leaves the blocking select once its scope is tripped or Close is
\* called; it then returns n = 0 with deadline-exceeded when its scope has
\* tripped and end-of-stream when Close was called; SetDeadline,
\* SetReadDeadline, SetWriteDeadline and Close can run in every state, a
\* blocked Read or Write included.
C4_CancellationUnblocks ==
  /\ (ReadBlocked /\ ReadCancelled) ~> (reader.pc = "idle")
  /\ (WriteBlocked /\ WriteCancelled) ~> (writer.pc = "idle")
  /\ [][C4_ReturnsCancelError]_vars
  /\ []C4_CallsReturn

\* a Read has returned deadline-exceeded from the blocking select (no Read has
\* started since the call that tripped the scope) while its receive is still
\* inside the transport
C4_Witness ==
  /\ ret = Failed("Read", ErrDeadlineExceeded) /\ readFresh = "tripped"
  /\ RecvInCall # {} /\ reader.pc = "idle"

\* ------------------------------------------------------------------- C5
\* what a Read / Write that fails at its first check leaves alone
ReadNothingDone == reader'.pc = "idle" /\ UNCHANGED <<buf, offset, recvTasks, readDone, muRecv>>
WriteNothingDone == writer'.pc = "idle" /\ UNCHANGED <<sendTasks, sendDone, muSend>>

\* C5 as stated: every Read (Write) that starts while its scope is tripped
\* fails with deadline-exceeded, whether or not Close has been called, makes
\* no transport call and leaves the leftover buffer and offset unchanged.
C5_AlwaysDeadlineExceeded ==
  [][ /\ (ReadScopeDone /\ ReadStarts) =>
           (ret' = Failed("Read", ErrDeadlineExceeded) /\ ReadNothingDone)
      /\ (WriteScopeDone /\ WriteStarts) =>
           (ret' = Failed("Write", ErrDeadlineExceeded) /\ WriteNothingDone) ]_vars

\* C5 (amended): every Read (Write) that starts while its scope is tripped
\* fails with n = 0, makes no transport call and leaves the leftover buffer
\* and offset unchanged; the error is deadline-exceeded while Close has not
\* been called, and deadline-exceeded or end-of-stream once it has.
C5_TrippedScopeFails ==
  [][ /\ (ReadScopeDone /\ ReadStarts) =>
           /\ ret'.op = "Read" /\ ret'.n = 0 /\ ret'.data = <<>>
           /\ ret'.err \in {ErrDeadlineExceeded} \cup (IF ctx = "done" THEN {EOF} ELSE {})
           /\ ReadNothingDone
      /\ (WriteScopeDone /\ WriteStarts) =>
           /\ ret'.op = "Write" /\ ret'.n = 0
           /\ ret'.err \in {ErrDeadlineExceeded} \cup (IF ctx = "done" THEN {EOF} ELSE {})
           /\ WriteNothingDone ]_vars

\* a Read has failed with deadline-exceeded on a closed adapter that holds
\* leftover bytes
C5_Witness ==
  /\ ret = Failed("Read", ErrDeadlineExceeded) /\ ReadScopeDone
  /\ ctx = "done" /\ ~buf.nil /\ offset < Len(buf.data)

\* ------------------------------------------------------------------- C6
\* a step of the write deadline: SetWriteDeadline, or the write timer
WriteDeadlineStep ==
  ret'.op = "SetWriteDeadline" \/ (ret'.op = "none" /\ writeTimers' # writeTimers)
ReadDeadlineStep ==
  ret'.op = "SetReadDeadline" \/ (ret'.op = "none" /\ readTimers' # readTimers)
\* a step of Read or of its background receive, of Write or of its send
ReadStep == ret'.op = "Read" \/ reader' # reader \/ recvTasks' # recvTasks
WriteStep == ret'.op = "Write" \/ writer' # writer \/ sendTasks' # sendTasks
C6_Frame ==
  /\ WriteDeadlineStep =>
       UNCHANGED <<ctxRead, readScopes, readDeadline, readTimers, buf, offset,
                   reader, recvTasks, readDone, muReading, muRecv>>
  /\ ReadDeadlineStep =>
       UNCHANGED <<ctxWrite, writeScopes, writeDeadline, writeTimers,
                   writer, sendTasks, sendDone, muWriting, muSend>>
  /\ ReadStep => UNCHANGED <<writer, sendTasks, sendDone, muWriting, muSend>>
  /\ WriteStep => UNCHANGED <<reader, recvTasks, readDone, muReading, muRecv, buf, offset>>
\* what a Write needs to take its next step never involves the Read side
C6_WriteNotBlockedByRead ==
  /\ writer.pc = "idle" => \A B \in BufLens : ENABLED WriteStart(B)
  /\ (writer.pc = "lock" /\ FreeTasks(sendTasks) # {}) => ENABLED WriteBody
  /\ (writer.pc = "select" /\ sendDone[writer.ch] # <<>>) => ENABLED WriteSelect
  /\ \A t \in TaskIds : (sendTasks[t] = "lock" /\ SendInCall = {}) => ENABLED SendLock(t)
  /\ \A t \in TaskIds : sendTasks[t] = "call" => ENABLED SendReturn(t, Nil)
C6_ReadNotBlockedByWrite ==
  /\ reader.pc = "idle" => \A B \in BufLens : ENABLED ReadStart(B)
  /\ (reader.pc = "lock" /\ (~buf.nil \/ FreeTasks(recvTasks) # {})) => ENABLED ReadBody
  /\ (reader.pc = "select" /\ readDone[reader.ch] # <<>>) => ENABLED ReadSelect
  /\ \A t \in TaskIds : (recvTasks[t] = "lock" /\ RecvInCall = {}) => ENABLED RecvLock(t)
  /\ \A t \in TaskIds : recvTasks[t] = "call" => ENABLED RecvReturn(t, [data |-> <<>>, err |-> Nil])

\* C6: SetWriteDeadline and the write timer change nothing of the read
\* direction (scope, timer, leftover buffer, the Read in progress and its
\* receive), SetReadDeadline and the read timer nothing of the write direction;
\* no step of Read changes the state of a Write or the reverse, and every step
\* of a Write (Read) can be taken whatever the Read (Write) is doing.
C6_IndependentDirections ==
  /\ [][C6_Frame]_vars
  /\ [](C6_WriteNotBlockedByRead /\ C6_ReadNotBlockedByWrite)

\* SetWriteDeadline has tripped the write scope while a Read is blocked on a
\* live read scope
C6_Witness ==
  /\ ret.op = "SetWriteDeadline" /\ WriteScopeDone
  /\ ReadBlocked /\ ~ReadCancelled /\ RecvInCall # {}

\* ------------------------------------------------------------------- C7
EndOfStreamCodes == {"status.Unavailable", "status.OutOfRange"}
\* the result of the background call reaches the caller: it is in the channel
\* and no scope the select waits on has tripped
RecvReaches == reader.pc = "select" /\ readDone[reader.ch] # <<>> /\ ~ReadCancelled
SendReaches == writer.pc = "select" /\ sendDone[writer.ch] # <<>> /\ ~WriteCancelled
C7_Step ==
  /\ (RecvReaches /\ ret'.op = "Read" /\ Head(readDone[reader.ch]).err # Nil) =>
       LET e == Head(readDone[reader.ch]).err
       IN ret'.err = IF e \in EndOfStreamCodes THEN "io.EOF" ELSE e
  /\ (SendReaches /\ ret'.op = "Write") =>
       LET e == Head(sendDone[writer.ch])
       IN ret'.err = IF e \in EndOfStreamCodes THEN "io.EOF" ELSE e

\* C7: when the result of Recv (Send) reaches the caller and its error has
\* status Unavailable or OutOfRange, Read (Write) returns io.EOF; an error with
\* any other status, or with none, is returned unchanged; no Read or Write
\* ever returns an Unavailable or OutOfRange error.
C7_StatusTranslation ==
  /\ [][C7_Step]_vars
  /\ [](ret.err \notin EndOfStreamCodes)

\* a Read has returned io.EOF on an adapter that was never closed
C7_Witness == ret = Failed("Read", "io.EOF") /\ ctx = "live"

\* ------------------------------------------------------------------- C8
C8_Step ==
  /\ ctx = "done" => ctx' = "done"
  /\ (ctx = "done" /\ ret'.op = "Close") =>
       (ret'.err = Nil /\ UNCHANGED <<readDl, writeDl, readSide, writeSide, ctx>>)
  /\ ret'.op = "Close" => (ctx' = "done" /\ UNCHANGED <<recvTasks, sendTasks, reader, writer>>)
  /\ (ctx = "done" /\ ReadStarts) =>
       /\ ret'.op = "Read" /\ ret'.n = 0 /\ ret'.data = <<>>
       /\ ret'.err \in {EOF} \cup (IF ReadScopeDone THEN {ErrDeadlineExceeded} ELSE {})
       /\ ReadNothingDone
  /\ (ctx = "done" /\ WriteStarts) =>
       /\ ret'.op = "Write" /\ ret'.n = 0
       /\ ret'.err \in {EOF} \cup (IF WriteScopeDone THEN {ErrDeadlineExceeded} ELSE {})
       /\ WriteNothingDone

\* C8: once tripped the close scope stays tripped; a later Close changes no
\* state and returns nil; Close can run whatever background tasks are
\* outstanding and does not touch them; a Read or Write that starts after
\* Close fails with n = 0 and end-of-stream (or deadline-exceeded when its
\* scope is tripped), launches no transport call and leaves the leftover
\* buffer and offset as they were.
C8_CloseIdempotentPermanent ==
  [][C8_Step]_vars /\ [](ENABLED Close)

\* a Read has failed with end-of-stream on a closed adapter whose leftover
\* buffer still holds bytes, while a background receive is outstanding or not
C8_Witness ==
  /\ ret = Failed("Read", EOF) /\ ctx = "done"
  /\ ~buf.nil /\ offset < Len(buf.data) /\ ~ReadScopeDone

\* ------------------------------------------------------------------- C9
\* C9 as stated: at most one background receive and at most one background
\* send is launched and not yet finished.
C9_OneTaskInFlight ==
  Cardinality(RecvLive) <= 1 /\ Cardinality(SendLive) <= 1

\* C9 (amended): at most one background receive and at most one background
\* send is inside the transport call; every other launched task is waiting
\* for muRecv / muSend, which is held exactly while a task is in the call.
C9_OneTaskInTransport ==
  /\ Cardinality(RecvInCall) <= 1 /\ Cardinality(SendInCall) <= 1
  /\ muRecv <=> RecvInCall # {}
  /\ muSend <=> SendInCall # {}

\* after an abandoned Read, a new Read has launched a second receive that
\* waits for muRecv while the first is inside the transport
C9_Witness ==
  /\ Cardinality(RecvLive) = 2 /\ Cardinality(RecvInCall) = 1
  /\ reader.pc = "select"

\* ------------------------------------------------------------------ C10
\* the effective rate of the claim
EffectiveRate(serverRx, clientTx) ==
  IF 0 < serverRx /\ serverRx < clientTx THEN serverRx ELSE clientTx

\* C10: after a successful handshake, if the server's rate is adaptive BBR
\* is installed and HandshakeInfo.Tx = 0; otherwise the effective rate is
\* serverRx when 0 < serverRx < clientTx and clientTx otherwise, Brutal is
\* installed at that rate when it is nonzero and BBR when it is zero, and
\* HandshakeInfo.Tx is the effective rate; Tx = 0 exactly when BBR is
\* installed.  (false,0,5000) gives Brutal at 5000, (false,3000,5000) Brutal
\* at 3000, (false,0,0) BBR.
C10_CongestionSelection ==
  hs.pc = "connected" =>
    LET in == hs.in
        Tx == hs.info[1].Tx
        eff == EffectiveRate(in.Rx, in.MaxTx)
    IN /\ in.RxAuto => (hs.cc = "BBR" /\ Tx = 0)
       /\ (~in.RxAuto /\ eff # 0) => (hs.cc = "Brutal" /\ hs.ccRate = eff /\ Tx = eff)
       /\ (~in.RxAuto /\ eff = 0) => (hs.cc = "BBR" /\ Tx = 0)
       /\ Tx = 0 <=> hs.cc = "BBR"
       /\ (~in.RxAuto /\ in.Rx = 0 /\ in.MaxTx = 5000) => (hs.cc = "Brutal" /\ hs.ccRate = 5000)
       /\ (~in.RxAuto /\ in.Rx = 3000 /\ in.MaxTx = 5000) => (hs.cc = "Brutal" /\ hs.ccRate = 3000)
       /\ (~in.RxAuto /\ in.Rx = 0 /\ in.MaxTx = 0) => hs.cc = "BBR"

\* the handshake (false, 3000, 5000) has installed Brutal at 3000
C10_Witness ==
  /\ hs.pc = "connected" /\ ~hs.in.RxAuto /\ hs.in.Rx = 3000 /\ hs.in.MaxTx = 5000
  /\ hs.cc = "Brutal" /\ hs.ccRate = 3000 /\ hs.info[1].Tx = 3000

\* ------------------------------------------------------------------ C11
\* C11 as stated: when the server does not ask for rate-adaptive mode, BBR is
\* installed exactly when serverRx and clientTx are both zero; whenever one of
\* them is nonzero Brutal is installed with a nonzero rate.
C11_FallbackWhenBothZero ==
  (hs.pc = "connected" /\ ~hs.in.RxAuto) =>
    /\ hs.cc = "BBR" <=> (hs.in.Rx = 0 /\ hs.in.MaxTx = 0)
    /\ (hs.in.Rx # 0 \/ hs.in.MaxTx # 0) => (hs.cc = "Brutal" /\ hs.ccRate # 0)

\* C11 (amended): when the server does not ask for rate-adaptive mode, BBR is
\* installed exactly when clientTx is zero, whatever serverRx is; for every
\* input with clientTx nonzero Brutal is installed with a nonzero rate that
\* is at most clientTx.
C11_FallbackWhenClientTxZero ==
  (hs.pc = "connected" /\ ~hs.in.RxAuto) =>
    /\ hs.cc = "BBR" <=> hs.in.MaxTx = 0
    /\ hs.in.MaxTx # 0 =>
         (hs.cc = "Brutal" /\ hs.ccRate # 0 /\ hs.ccRate <= hs.in.MaxTx)
    /\ hs.cc \in {"BBR", "Brutal"}

\* the handshake (false, 3000, 0) has installed BBR although the server
\* declared a rate
C11_Witness ==
  /\ hs.pc = "connected" /\ ~hs.in.RxAuto /\ hs.in.Rx = 3000 /\ hs.in.MaxTx = 0
  /\ hs.cc = "BBR" /\ hs.info[1].Tx = 0

\* ------------------------------------------------------------------ C12
\* the connect request went out and the server answered with a rejection
Rejected(t) ==
  /\ t.pc # "none" /\ t.in[1].openErr = Nil /\ t.in[1].writeErr = Nil
  /\ t.in[1].answer = "reject"
IsDialErrorWith(err, m) == err.type = "DialError" /\ Contains(err.Message, m)
\* what TCP has returned for a rejected request
C12_TCPReturn ==
  (Rejected(tcp) /\ tcp.ret.op = "TCP") =>
    IF tcp.in[1].FastOpen
      THEN tcp.ret.conn /\ tcp.ret.err = NoError /\ tcp.pc = "conn"
      ELSE /\ ~tcp.ret.conn /\ tcp.pc = "failed"
           /\ IsDialErrorWith(tcp.ret.err, tcp.in[1].msg)
           /\ tcp.stream = "closed"
\* the first Read on the connection TCP returned for a rejected request
C12_FirstRead ==
  (Rejected(tcp) /\ tcp.pc = "conn" /\ tcp.reads = 0 /\ tcp'.reads = 1) =>
    /\ tcp'.ret.op = "Read" /\ tcp'.ret.n = 0
    /\ IsDialErrorWith(tcp'.ret.err, tcp.in[1].msg)

\* C12: when the connect request was written and the server rejects it with
\* message m: with fast-open, TCP returns a connection and no error and the
\* first Read on it returns 0 bytes and a DialError whose message contains m;
\* without fast-open, TCP returns no connection and a DialError whose message
\* contains m, and has closed the stream.
C12_FastOpenDeferredValidation ==
  []C12_TCPReturn /\ [][C12_FirstRead]_vars

\* the first Read of a fast-open connection has failed with the server's
\* rejection message
C12_Witness ==
  /\ Rejected(tcp) /\ tcp.in[1].FastOpen /\ tcp.reads = 1
  /\ tcp.ret = TcpReadReturns(0, DialError(<<"m2">>))

\* ------------------------------------------------------------------ C13
Malformed(r) == r.err = Nil /\ ~r.msg[1].wellFormed
WellFormed(r) == r.err = Nil /\ r.msg[1].wellFormed
\* what the call has received so far decides whether and what it returns
C13_Returned ==
  LET got == udp.got
      n == Len(got)
  IN /\ \A i \in 1..(n - 1) : Malformed(got[i])
     /\ udp.pc = "recv" => udp.ret.op = "none"
     /\ udp.ret.op = "ReceiveMessage" => udp.pc = "idle"
     /\ udp.pc = "recv" => \A i \in 1..n : Malformed(got[i])
     /\ udp.ret.op = "ReceiveMessage" =>
          /\ n > 0 /\ ~Malformed(got[n])
          /\ WellFormed(got[n]) =>
               (udp.ret.err = Nil /\ udp.ret.udpMsg = <<got[n].msg[1].payload>>)
          /\ got[n].err # Nil =>
               (udp.ret.err = got[n].err /\ udp.ret.udpMsg = <<>>)
          /\ udp.ret.err \in {Nil} \cup QuicErrs

\* C13: in one call of ReceiveMessage every datagram received before the last
\* is malformed and was discarded without returning; the call returns exactly
\* when a datagram is well-formed - that datagram's message, and no error - or
\* when the datagram receive fails - that error, at once; it never returns a
\* malformed message or an error that comes from parsing.
C13_DatagramResilience ==
  []C13_Returned /\ [][(udp.pc = "recv" /\ udp'.got # udp.got) =>
                        (udp'.pc = "recv" <=> Malformed(udp'.got[Len(udp'.got)]))]_vars

\* ReceiveMessage has returned the well-formed datagram that followed two
\* malformed ones
C13_Witness ==
  /\ Len(udp.got) = 3 /\ Malformed(udp.got[1]) /\ Malformed(udp.got[2])
  /\ udp.ret = UdpReturns(<<"b">>, Nil)

StaleReadCallback ==
  \E t \in TimerIds : t # readDeadline /\ readTimers[t] = "fired" /\ readTimers'[t] # "fired"
StaleWriteCallback ==
  \E t \in TimerIds : t # writeDeadline /\ writeTimers[t] = "fired" /\ writeTimers'[t] # "fired"

\* C15: once a deadline call with a future time has re-armed the timer, a
\* timer armed by an earlier call never trips the scope - also when it had
\* already fired and its callback was waiting for the deadline lock: the
\* callback of such a timer leaves the read (write) scope as it is.
C15_RearmCancelsPreviousTimer ==
  [][ /\ StaleReadCallback => readScopes' = readScopes
      /\ StaleWriteCallback => writeScopes' = writeScopes ]_vars

\* ------------------------------------------------------------------ C16
\* C16: no two steps of different goroutines that are ready to run at the same
\* time access one field of the ServerConn, one of them writing, without a
\* lock held by both: the scope fields are read only under the lock the
\* deadline calls replace them under, the leftover buffer and offset only
\* under the read lock.
C16_NoDataRace == Races = {}

\* ------------------------------------------------------------------ C17
\* sync.Mutex hands the lock to a goroutine that keeps waiting for it, and the
\* transport call of a task that holds the lock is taken to return
TaskScenarios ==
  { {"Read", "SetDeadline", "Close"}, {"Write", "SetDeadline", "Close"} }
TaskInit == InitConn /\ hs = NoHs /\ tcp = NoTcp /\ udp = NoUdp /\ uses \in TaskScenarios
\* Read, Write and their tasks, with the calls that release a blocked caller
TaskNext ==
  \/ "Read" \in uses /\ \E B \in Bufs : ReadStart(B)
  \/ "Read" \in uses /\ ReadBody
  \/ "Read" \in uses /\ ReadSelect
  \/ "Read" \in uses /\ \E t \in TaskIds : RecvLock(t)
  \/ "Read" \in uses /\ \E t \in TaskIds, resp \in RecvResps(Lens) : RecvReturn(t, resp)
  \/ "Write" \in uses /\ \E B \in BufLens : WriteStart(B)
  \/ "Write" \in uses /\ WriteBody
  \/ "Write" \in uses /\ WriteSelect
  \/ "Write" \in uses /\ \E t \in TaskIds : SendLock(t)
  \/ "Write" \in uses /\ \E t \in TaskIds, e \in SendErrs : SendReturn(t, e)
  \/ \E future \in BOOLEAN : SetDeadline(future)
  \/ Close
TaskSpec ==
  /\ TaskInit /\ [][TaskNext]_vars
  /\ \A t \in TaskIds :
       /\ SF_vars(RecvLock(t)) /\ SF_vars(SendLock(t))
       /\ WF_vars(\E resp \in RecvResps(Lens) : RecvReturn(t, resp))
       /\ WF_vars(\E e \in SendErrs : SendReturn(t, e))

\* the life of a task: launched, at most one transport call, gone
TaskStep(tasks, tasks2) ==
  \A t \in TaskIds :
    \/ tasks2[t] = tasks[t]
    \/ tasks[t] = "none" /\ tasks2[t] = "lock"
    \/ tasks[t] = "lock" /\ tasks2[t] = "call"
    \/ tasks[t] = "call" /\ tasks2[t] = "none"
C17_Step ==
  /\ TaskStep(recvTasks, recvTasks') /\ TaskStep(sendTasks, sendTasks')
  \* the result of a call whose caller still waits is in the channel when the
  \* task ends
  /\ \A t \in TaskIds :
       (recvTasks[t] = "call" /\ recvTasks'[t] = "none"
          /\ reader.pc = "select" /\ reader.ch = t) => Len(readDone'[t]) = 1
  /\ \A t \in TaskIds :
       (sendTasks[t] = "call" /\ sendTasks'[t] = "none"
          /\ writer.pc = "select" /\ writer.ch = t) => Len(sendDone'[t]) = 1
\* a task in its transport call can deliver and end whatever the caller does;
\* a task waiting for the lock can take it as soon as it is free; no channel
\* ever holds more than its one slot
C17_NeverBlocked ==
  \A t \in TaskIds :
    /\ recvTasks[t] = "call" =>
         \A resp \in RecvResps(MsgLens) : ENABLED RecvReturn(t, resp)
    /\ sendTasks[t] = "call" => \A e \in SendErrs : ENABLED SendReturn(t, e)
    /\ (recvTasks[t] = "lock" /\ RecvInCall = {}) => ENABLED RecvLock(t)
    /\ (sendTasks[t] = "lock" /\ SendInCall = {}) => ENABLED SendLock(t)
    /\ Len(readDone[t]) <= 1 /\ Len(sendDone[t]) <= 1

\* C17: every background task makes exactly one transport call; when the call
\* returns the task delivers the result on its one-slot channel without
\* blocking and ends, whether its caller still waits or has been released by
\* a deadline or Close; a task whose predecessors' calls return gets its turn
\* and ends: none waits forever for a lock or a channel.
C17_TaskTermination ==
  /\ [][C17_Step]_vars
  /\ []C17_NeverBlocked
  /\ \A t \in TaskIds : (recvTasks[t] # "none") ~> (recvTasks[t] = "none")
  /\ \A t \in TaskIds : (sendTasks[t] # "none") ~> (sendTasks[t] = "none")

\* the receive of a Read that was released early has ended after its caller
\* had gone: the next Read had to launch task 2 because task 1 was still
\* running, and task 1 has ended since
C17_Witness ==
  /\ reader.pc = "select" /\ reader.ch = 2
  /\ recvTasks[1] = "none" /\ recvTasks[2] = "call"

\* ---------------------------------------------------------------- C18
\* C18: whenever no Read is executing, the leftover buffer is absent or holds
\* at least one undelivered byte (0 <= offset < its length)
C18_LeftoverInvariant ==
  reader.pc = "idle" => (buf.nil \/ (0 <= offset /\ offset < Len(buf.data)))

\* ---------------------------------------------------------------- C19
\* the Recv of task t returns in this step
RecvReturns(t) == recvTasks[t] = "call" /\ recvTasks'[t] = "none"
\* a Read leaves its blocking select with an error in this step
ReadGivesUp == reader.pc = "select" /\ ret'.op = "Read" /\ ret'.err # Nil

\* C19: while Close has not been called, the bytes the successful Reads
\* return are a prefix of the bytes Recv has returned, no message taken from
\* the transport being dropped: what a Recv returns goes to a Read that still
\* waits for it (the only path to the leftover buffer and to a caller), also
\* when a deadline has released the Read that launched the receive, and a Read
\* that gives up leaves no payload behind in its channel
C19_StreamIntegrity ==
  [][ ctx' = "live" =>
        /\ \A t \in TaskIds :
             RecvReturns(t) => (reader'.pc = "select" /\ reader'.ch = t /\ readDone'[t] # <<>>)
        /\ ReadGivesUp => ~HasBytes(readDone[reader.ch]) ]_vars

\* ---------------------------------------------------------------- C20
\* a tcpConn is Established only if the one success response of its stream
\* has been read, and only an Established tcpConn yields bytes
C20_EstablishedMeansValidated ==
  /\ tcp.Established => (tcp.pc = "conn" /\ tcp.respReads = 1 /\ tcp.in[1].answer = "ok")
  /\ (tcp.ret.op = "Read" /\ tcp.ret.n > 0) => tcp.Established
  /\ (tcp.pc = "conn" /\ tcp.reads = 0) => (tcp.Established <=> ~tcp.in[1].FastOpen)
\* a Read runs in this step
TcpReads == tcp.pc = "conn" /\ tcp'.reads = tcp.reads + 1
C20_FlagSteps ==
  /\ tcp.Established => (tcp'.Established /\ tcp'.respReads = tcp.respReads)
  /\ (tcp.pc = "conn" /\ ~tcp.Established /\ tcp'.Established) =>
       /\ TcpReads /\ tcp'.respReads = tcp.respReads + 1
       /\ ReadTCPResponse(tcp).err = Nil /\ ReadTCPResponse(tcp).ok
  /\ (TcpReads /\ ~tcp.Established
        /\ (ReadTCPResponse(tcp).err # Nil \/ ~ReadTCPResponse(tcp).ok)) =>
       /\ tcp'.ret.op = "Read" /\ tcp'.ret.n = 0 /\ tcp'.ret.err # NoError
       /\ ~tcp'.Established

\* C20: tcpConn.Read yields application data only after a success response
\* has been read on the stream: Established is true from creation exactly in
\* normal mode, changes only from false to true and only in a Read that read
\* a success response, never changes back, and once it is true no Read reads
\* a response again; a Read whose response read fails or is negative returns
\* 0 bytes and leaves Established false.
C20_EstablishedFlag ==
  []C20_EstablishedMeansValidated /\ [][C20_FlagSteps]_vars

\* a fast-open connection whose first Read read the success response has
\* yielded bytes in its second Read without another response read
C20_Witness ==
  /\ tcp.pc = "conn" /\ tcp.in[1].FastOpen /\ tcp.Established
  /\ tcp.reads = 2 /\ tcp.respReads = 1 /\ tcp.ret = TcpReadReturns(2, NoError)
====
